---- MODULE Spec2Model ----
(***************************************************************************)
(* Jarvis smart-factory backend: the reading store, the anomaly detector   *)
(* (services/anomaly_detector.py) and the trend predictor                  *)
(* (services/predictor.py).                                                *)
(*                                                                         *)
(* Numbers.  Temperatures are whole degrees C, rpm whole revolutions,      *)
(* vibration is counted in hundredths (0.6 is 60, 0.9 is 90), time in      *)
(* whole hours.  None (JSON null) is the value Null; every comparison of   *)
(* the code that raises TypeError on None is guarded by IsNull here.       *)
(* A machine snapshot is the dict after its .get(key, default) calls: an   *)
(* absent key already carries its default.                                 *)
(***************************************************************************)
EXTENDS Integers, Sequences, FiniteSets, TLC

\* ---------------------------------------------------------------- bounds
MaxStore == 5        \* readings the store may hold
MaxTime == 3         \* last hour of the clock
Stride == 3          \* hours between two polls of the live endpoint
MaxLate == 9         \* last hour of the longer watch
MaxPoints == 3       \* points of a series handed to linear_regression
MaxHour == 2         \* largest x of such a series
MaxValues == 5       \* historical values handed to calculate_zscore
MaxFleet == 3        \* machines listed in the latest-data file

\* ------------------------------------------------------ program constants
TEMP_WARNING == 75
TEMP_CRITICAL == 85
TEMP_MIN == 15
VIB_WARNING == 60
VIB_CRITICAL == 90
RPM_WARNING == 2800
RPM_CRITICAL == 3200
ZSCORE_NUM == 5      \* ZSCORE_THRESHOLD = 2.5 = ZSCORE_NUM / ZSCORE_DEN
ZSCORE_DEN == 2
MIN_SAMPLES == 5     \* len(temp_history) >= 5
RISE_LIMIT == 10     \* temp_change > 10
DETECT_HOURS == 2    \* get_recent_readings(db, machine_id, hours=2)
PREDICT_HOURS == 6   \* get_historical_readings(db, machine_id, hours=6)
MIN_READINGS == 5    \* len(readings) < 5
TEMP_FAILURE_THRESHOLD == 90
VIBRATION_FAILURE_THRESHOLD == 100
HEALTH_CRITICAL_THRESHOLD == 40
NEAR_TERM_HOURS == 48
HIGH_RISK_HOURS == 4
MEDIUM_RISK_HOURS == 12
HEALTH_TEMP == 80    \* calculate_health: temperature > 80
HEALTH_TEMP_CRIT == 90
HEALTH_VIB == 70     \* vibration > 0.7
HEALTH_VIB_CRIT == 120
HEALTH_RPM == 3000

\* explain_anomaly
EXPLAIN_HOURS == 6
EXPLAIN_AVG_TEMP == 50
EXPLAIN_AVG_VIB == 30
EXPLAIN_CHANGE == 15
EXPLAIN_RATIO_NUM == 3
EXPLAIN_RATIO_DEN == 2

\* control_machine
DEFAULT_SPEED == 100
MAX_SPEED == 150

Null == -999
IsNull(v) == v = Null
\* Python truthiness of a stored number: None and 0 are falsy.
Truthy(v) == ~IsNull(v) /\ v # 0

VARIABLES store, alerts, now, report, earlier, machine_states
vars == <<store, alerts, now, report, earlier, machine_states>>

\* ------------------------------------------------------------ sequences
Reverse(s) == [i \in 1..Len(s) |-> s[Len(s) + 1 - i]]
Take(s, k) == SubSeq(s, 1, IF Len(s) < k THEN Len(s) ELSE k)
RECURSIVE Sum(_)
Sum(s) == IF s = <<>> THEN 0 ELSE Head(s) + Sum(Tail(s))
SumSq(s) == Sum([i \in 1..Len(s) |-> s[i] * s[i]])
Types(as) == [i \in 1..Len(as) |-> as[i].type]
Severities(as) == [i \in 1..Len(as) |-> as[i].severity]
Has(s, x) == \E i \in 1..Len(s) : s[i] = x
Count(s, x) == Cardinality({i \in 1..Len(s) : s[i] = x})

\* ------------------------------------------------------------- inputs
\* What the latest-data file can hold when the live endpoint reads it.  An
\* entry with a null metric makes calculate_health raise before anything
\* is saved, so stored rows carry numbers only.
LiveSnapshots ==
  { [machine_id |-> "MILL-01", temperature |-> 50, vibration |-> 30, rpm |-> 0],
    [machine_id |-> "MILL-01", temperature |-> 62, vibration |-> 32, rpm |-> 3100],
    [machine_id |-> "MILL-01", temperature |-> 0, vibration |-> 0, rpm |-> 0],
    [machine_id |-> "LATHE-02", temperature |-> 85, vibration |-> 95, rpm |-> 3100] }

SnapTemps == {10, 62, 75, 84, 85, 92}
SnapLoads == { <<30, 0>>, <<60, 1000>>, <<90, 2800>>, <<30, 3200>> }
\* The snapshots handed to the detector: temperature, (vibration, rpm), and
\* three snapshots with one metric null.
DetectSnapshots ==
  { [machine_id |-> "MILL-01", temperature |-> t, vibration |-> l[1], rpm |-> l[2]] :
      t \in SnapTemps, l \in SnapLoads }
  \cup { [machine_id |-> "MILL-01", temperature |-> c[1], vibration |-> c[2], rpm |-> c[3]] :
           c \in { <<Null, 30, 0>>, <<62, Null, 0>>, <<62, 30, Null>> } }

\* The snapshots handed to the predictor; health_score 100 is the default
\* of a snapshot without that key.
PredictSnapshots ==
  { [machine_id |-> "MILL-01", temperature |-> c[1], vibration |-> c[2], health_score |-> c[3]] :
      c \in { <<50, 30, 100>>, <<42, 30, 100>>, <<88, 30, 100>>, <<92, 30, 100>>,
              <<50, 99, 100>>,
              <<50, 30, 45>>, <<50, 30, 40>>,
              <<Null, 30, 100>>, <<50, Null, 100>>, <<50, 30, Null>> } }

\* The latest-data file as GET /jarvis/anomalies finds it: the data folder
\* missing or empty, the newest file unreadable or not JSON, or a JSON list
\* of machine snapshots.
LatestFiles ==
  { [state |-> "missing", data |-> << >>],
    [state |-> "unreadable", data |-> << >>],
    [state |-> "ok", data |-> << >>],
    [state |-> "ok",
     data |-> << [machine_id |-> "MILL-01", temperature |-> 62, vibration |-> 30, rpm |-> 0] >>],
    [state |-> "ok",
     data |-> << [machine_id |-> "MILL-01", temperature |-> 92, vibration |-> 30, rpm |-> 0],
                 [machine_id |-> "LATHE-02", temperature |-> 75, vibration |-> 60, rpm |-> 1000] >>],
    [state |-> "ok",
     data |-> << [machine_id |-> "MILL-01", temperature |-> Null, vibration |-> 30, rpm |-> 0] >>] }

\* -------------------------------------------------- services/data_reader.py
\* Every failure of the read is caught and answered with the empty list.
read_latest_data(file) ==
  IF file.state = "missing" THEN << >>
  ELSE IF file.state = "unreadable" THEN << >>
  ELSE file.data

\* ----------------------------------------------------- api/machines.py
CalculateHealthScore(machine) ==
  100 - (IF machine.temperature > HEALTH_TEMP THEN 30 ELSE 0)
      - (IF machine.vibration > HEALTH_VIB THEN 25 ELSE 0)
      - (IF machine.rpm > HEALTH_RPM THEN 20 ELSE 0)

CalculateHealthStatus(score) ==
  IF score >= 70 THEN "Healthy" ELSE IF score >= 40 THEN "Warning" ELSE "Critical"

CalculateHealthAlerts(machine) ==
  (IF machine.temperature > HEALTH_TEMP
     THEN << [machine_id |-> machine.machine_id, alert_type |-> "temperature",
              severity |-> IF machine.temperature > HEALTH_TEMP_CRIT THEN "critical" ELSE "warning"] >>
     ELSE << >>)
  \o (IF machine.vibration > HEALTH_VIB
     THEN << [machine_id |-> machine.machine_id, alert_type |-> "vibration",
              severity |-> IF machine.vibration > HEALTH_VIB_CRIT THEN "critical" ELSE "warning"] >>
     ELSE << >>)
  \o (IF machine.rpm > HEALTH_RPM
     THEN << [machine_id |-> machine.machine_id, alert_type |-> "rpm", severity |-> "warning"] >>
     ELSE << >>)

\* A comparison of None with a number raises TypeError, in machines.py and
\* in websocket.py alike.
HealthRaises(machine) ==
  IsNull(machine.temperature) \/ IsNull(machine.vibration) \/ IsNull(machine.rpm)

\* ----------------------------------------------------- api/websocket.py
\* the temperature limit itself counted as a breach
calculate_health_AtLimit(machine) ==
  LET score == 100 - (IF machine.temperature >= HEALTH_TEMP THEN 30 ELSE 0)
                   - (IF machine.vibration > HEALTH_VIB THEN 25 ELSE 0)
                   - (IF machine.rpm > HEALTH_RPM THEN 20 ELSE 0)
  IN  [score |-> score,
       status |-> IF score >= 70 THEN "Healthy"
                  ELSE IF score >= 40 THEN "Warning" ELSE "Critical"]

\* The health of the WebSocket stream: score and status, no alerts.
calculate_health(machine) ==
  LET score == 100 - (IF machine.temperature > HEALTH_TEMP THEN 30 ELSE 0)
                   - (IF machine.vibration > HEALTH_VIB THEN 25 ELSE 0)
                   - (IF machine.rpm > HEALTH_RPM THEN 20 ELSE 0)
  IN  [score |-> score,
       status |-> IF score >= 70 THEN "Healthy"
                  ELSE IF score >= 40 THEN "Warning" ELSE "Critical"]

\* services/data_reader.py save_reading: the row the live endpoint stores.
save_reading(machine, health_score, status, t) ==
  [machine_id |-> machine.machine_id, temperature |-> machine.temperature,
   vibration |-> machine.vibration, rpm |-> machine.rpm,
   health_score |-> health_score, status |-> status, timestamp |-> t]

\* ------------------------------------------- services/anomaly_detector.py
\* the cutoff row itself left out: timestamp > cutoff
get_recent_readings_StrictCutoff(db, machine_id, hours, t) ==
  Reverse(SelectSeq(db, LAMBDA r : r.machine_id = machine_id /\ r.timestamp > t - hours))

\* Rows of one machine not older than the cutoff, newest first.  Rows are
\* appended in clock order, so the newest row is the last one of the store.
get_recent_readings(db, machine_id, hours, t) ==
  Reverse(SelectSeq(db, LAMBDA r : r.machine_id = machine_id /\ r.timestamp >= t - hours))

Temperatures(readings) == [i \in 1..Len(readings) |-> readings[i].temperature]
Vibrations(readings) == [i \in 1..Len(readings) |-> readings[i].vibration]
\* [r.x for r in readings if r.x]
TruthyOnly(values) == SelectSeq(values, Truthy)

\* The z-score (value - avg) / std is kept exact: num has its sign, and its
\* square is sq_num / sq_den.  With n values, sum S and sum of squares Q,
\* avg = S/n and std^2 = (n*Q - S^2) / (n*(n-1)).
ZeroScore == [num |-> 0, sq_num |-> 0, sq_den |-> 1]
\* the test std == 0 left out
calculate_zscore_NoZeroCheck(value, values) ==
  LET n == Len(values)
      spread == n * SumSq(values) - Sum(values) * Sum(values)
      dev == n * value - Sum(values)
  IN  IF n < 3 THEN ZeroScore
      ELSE [num |-> dev, sq_num |-> dev * dev * (n - 1), sq_den |-> n * spread]

calculate_zscore(value, values) ==
  LET n == Len(values)
      spread == n * SumSq(values) - Sum(values) * Sum(values)
      dev == n * value - Sum(values)
  IN  IF n < 3 THEN ZeroScore
      ELSE IF spread = 0 THEN ZeroScore
      ELSE [num |-> dev, sq_num |-> dev * dev * (n - 1), sq_den |-> n * spread]

\* abs(z) > ZSCORE_THRESHOLD
ExceedsZThreshold(z) ==
  ZSCORE_DEN * ZSCORE_DEN * z.sq_num > ZSCORE_NUM * ZSCORE_NUM * z.sq_den

\* the critical limit compared with > instead of >=
TemperatureThreshold_StrictCritical(temperature) ==
  IF temperature > TEMP_CRITICAL
    THEN << [type |-> "temperature", severity |-> "critical", value |-> temperature,
             threshold |-> TEMP_CRITICAL] >>
  ELSE IF temperature >= TEMP_WARNING
    THEN << [type |-> "temperature", severity |-> "warning", value |-> temperature,
             threshold |-> TEMP_WARNING] >>
  ELSE IF temperature < TEMP_MIN
    THEN << [type |-> "temperature", severity |-> "warning", value |-> temperature] >>
  ELSE << >>

\* the warning branch tested before the critical one
TemperatureThreshold_WarningFirst(temperature) ==
  IF temperature >= TEMP_WARNING
    THEN << [type |-> "temperature", severity |-> "warning", value |-> temperature,
             threshold |-> TEMP_WARNING] >>
  ELSE IF temperature >= TEMP_CRITICAL
    THEN << [type |-> "temperature", severity |-> "critical", value |-> temperature,
             threshold |-> TEMP_CRITICAL] >>
  ELSE IF temperature < TEMP_MIN
    THEN << [type |-> "temperature", severity |-> "warning", value |-> temperature] >>
  ELSE << >>

TemperatureThreshold(temperature) ==
  IF temperature >= TEMP_CRITICAL
    THEN << [type |-> "temperature", severity |-> "critical", value |-> temperature,
             threshold |-> TEMP_CRITICAL] >>
  ELSE IF temperature >= TEMP_WARNING
    THEN << [type |-> "temperature", severity |-> "warning", value |-> temperature,
             threshold |-> TEMP_WARNING] >>
  ELSE IF temperature < TEMP_MIN
    THEN << [type |-> "temperature", severity |-> "warning", value |-> temperature] >>
  ELSE << >>

\* the warning limit compared with > instead of >=
VibrationThreshold_StrictWarning(vibration) ==
  IF vibration >= VIB_CRITICAL
    THEN << [type |-> "vibration", severity |-> "critical", value |-> vibration] >>
  ELSE IF vibration > VIB_WARNING
    THEN << [type |-> "vibration", severity |-> "warning", value |-> vibration] >>
  ELSE << >>

VibrationThreshold(vibration) ==
  IF vibration >= VIB_CRITICAL
    THEN << [type |-> "vibration", severity |-> "critical", value |-> vibration] >>
  ELSE IF vibration >= VIB_WARNING
    THEN << [type |-> "vibration", severity |-> "warning", value |-> vibration] >>
  ELSE << >>

\* RPM_THRESHOLDS["min"] = 500 put to use as a low-rpm warning
RpmThreshold_LowWarning(rpm) ==
  IF rpm >= RPM_CRITICAL
    THEN << [type |-> "rpm", severity |-> "critical", value |-> rpm] >>
  ELSE IF rpm >= RPM_WARNING
    THEN << [type |-> "rpm", severity |-> "warning", value |-> rpm] >>
  ELSE IF rpm < 500
    THEN << [type |-> "rpm", severity |-> "warning", value |-> rpm] >>
  ELSE << >>

RpmThreshold(rpm) ==
  IF rpm >= RPM_CRITICAL
    THEN << [type |-> "rpm", severity |-> "critical", value |-> rpm] >>
  ELSE IF rpm >= RPM_WARNING
    THEN << [type |-> "rpm", severity |-> "warning", value |-> rpm] >>
  ELSE << >>

\* the sample minimum off by one
EnoughSamples_OffByOne(history) == Len(history) >= MIN_SAMPLES - 1

EnoughSamples(history) == Len(history) >= MIN_SAMPLES

\* the spike reported under the type of the threshold finding
TemperatureSpike_AsTemperature(temperature, temp_history) ==
  IF EnoughSamples(temp_history) /\ ExceedsZThreshold(calculate_zscore(temperature, temp_history))
    THEN << [type |-> "temperature", severity |-> "anomaly", value |-> temperature] >>
    ELSE << >>

TemperatureSpike(temperature, temp_history) ==
  IF EnoughSamples(temp_history) /\ ExceedsZThreshold(calculate_zscore(temperature, temp_history))
    THEN << [type |-> "temperature_spike", severity |-> "anomaly", value |-> temperature] >>
    ELSE << >>

VibrationSpike(vibration, vib_history) ==
  IF EnoughSamples(vib_history) /\ ExceedsZThreshold(calculate_zscore(vibration, vib_history))
    THEN << [type |-> "vibration_spike", severity |-> "anomaly", value |-> vibration] >>
    ELSE << >>

\* oldest minus newest
TempChange_Reversed(recent_temps) == recent_temps[Len(recent_temps)] - recent_temps[1]

\* recent_temps[0] - recent_temps[-1]: newest minus oldest of the window
TempChange(recent_temps) == recent_temps[1] - recent_temps[Len(recent_temps)]

RateOfChange(readings) ==
  LET recent_temps == TruthyOnly(Temperatures(Take(readings, 5)))
  IN  IF Len(readings) >= 2 /\ Len(recent_temps) >= 2 /\ TempChange(recent_temps) > RISE_LIMIT
        THEN << [type |-> "temperature_rising", severity |-> "warning",
                 rate |-> TempChange(recent_temps)] >>
        ELSE << >>

\* warning ranked above anomaly
OverallSeverity_WarningFirst(severities) ==
  IF Has(severities, "critical") THEN "critical"
  ELSE IF Has(severities, "warning") THEN "warning"
  ELSE IF Has(severities, "anomaly") THEN "anomaly"
  ELSE "normal"

OverallSeverity(severities) ==
  IF Has(severities, "critical") THEN "critical"
  ELSE IF Has(severities, "anomaly") THEN "anomaly"
  ELSE IF Has(severities, "warning") THEN "warning"
  ELSE "normal"

\* A comparison of None with a number raises TypeError.
DetectRaises(machine) ==
  IsNull(machine.temperature) \/ IsNull(machine.vibration) \/ IsNull(machine.rpm)

TypeError == [error |-> "TypeError"]

\* The message texts and the rounded zscore field of the spike anomalies
\* are left out of the anomaly records.
detect_anomalies(db, machine, t) ==
  LET readings == get_recent_readings(db, machine.machine_id, DETECT_HOURS, t)
      temp_history == TruthyOnly(Temperatures(readings))
      vib_history == TruthyOnly(Vibrations(readings))
      anomalies == TemperatureThreshold(machine.temperature)
                   \o VibrationThreshold(machine.vibration)
                   \o RpmThreshold(machine.rpm)
                   \o TemperatureSpike(machine.temperature, temp_history)
                   \o VibrationSpike(machine.vibration, vib_history)
                   \o RateOfChange(readings)
  IN  IF DetectRaises(machine) THEN TypeError
      ELSE [machine_id |-> machine.machine_id,
            timestamp |-> t,
            overall_severity |-> OverallSeverity(Severities(anomalies)),
            anomaly_count |-> Len(anomalies),
            anomalies |-> anomalies,
            is_anomaly |-> Len(anomalies) > 0]

RECURSIVE SummaryResults(_, _, _)
\* The reports of the machines in file order.
SummaryResults(db, machines, t) ==
  IF machines = << >> THEN << >>
  ELSE << detect_anomalies(db, Head(machines), t) >>
       \o SummaryResults(db, Tail(machines), t)

SummaryRaises(machines) == \E i \in 1..Len(machines) : DetectRaises(machines[i])

\* the severity "anomaly" left out of the warning count
get_anomaly_summary_WarningOnly(db, machines, t) ==
  LET results == SummaryResults(db, machines, t)
      all_anomalies == SelectSeq(results, LAMBDA r : r.is_anomaly)
  IN  IF SummaryRaises(machines) THEN TypeError
      ELSE [total_machines |-> Len(machines),
            machines_with_anomalies |-> Len(all_anomalies),
            critical_count |->
              Len(SelectSeq(all_anomalies, LAMBDA r : r.overall_severity = "critical")),
            warning_count |->
              Len(SelectSeq(all_anomalies, LAMBDA r : r.overall_severity = "warning")),
            anomalies |-> all_anomalies]

get_anomaly_summary(db, machines, t) ==
  LET results == SummaryResults(db, machines, t)
      all_anomalies == SelectSeq(results, LAMBDA r : r.is_anomaly)
  IN  IF SummaryRaises(machines) THEN TypeError
      ELSE [total_machines |-> Len(machines),
            machines_with_anomalies |-> Len(all_anomalies),
            critical_count |->
              Len(SelectSeq(all_anomalies, LAMBDA r : r.overall_severity = "critical")),
            warning_count |->
              Len(SelectSeq(all_anomalies,
                            LAMBDA r : r.overall_severity \in {"warning", "anomaly"})),
            anomalies |-> all_anomalies]

\* ------------------------------------------------------------ api/jarvis.py
NoData == [machines |-> 0, anomalies |-> << >>]

\* GET /jarvis/anomalies: status 200 with a body, or status 500 when the
\* summary raised.
get_anomalies(file, db, t) ==
  LET machines == read_latest_data(file)
  IN  IF machines = << >> THEN [status |-> 200, body |-> NoData]
      ELSE IF SummaryRaises(machines) THEN [status |-> 500, body |-> TypeError]
      ELSE [status |-> 200, body |-> get_anomaly_summary(db, machines, t)]

\* ------------------------------------------------- services/predictor.py
get_historical_readings_NoCutoff(db, machine_id, hours, t) ==
  SelectSeq(db, LAMBDA r : r.machine_id = machine_id)
\* Rows of one machine not older than the cutoff, oldest first.
get_historical_readings(db, machine_id, hours, t) ==
  SelectSeq(db, LAMBDA r : r.machine_id = machine_id /\ r.timestamp >= t - hours)

\* Real numbers are exact fractions [num, den] with den > 0; the float
\* rounding error of the Python arithmetic is not modelled.
Frac(num, den) == [num |-> num, den |-> den]
FracLess(a, b) == a.num * b.den < b.num * a.den
FracEq(a, b) == a.num * b.den = b.num * a.den
\* round(): the nearest integer, a tie going to the even one
RoundHalfEven(num, den) ==
  LET q == num \div den
      twice == 2 * (num - q * den)
  IN  IF twice < den THEN q
      ELSE IF twice > den THEN q + 1
      ELSE IF q % 2 = 0 THEN q ELSE q + 1
\* round(value, 1), counted in tenths
RoundTenths(a) == RoundHalfEven(10 * a.num, a.den)

Dot(x, y) == Sum([i \in 1..Len(x) |-> x[i] * y[i]])

\* the intercept taken as the mean of y, slope * sum_x forgotten
linear_regression_MeanIntercept(x, y) ==
  LET n == Len(x)
      sum_x == Sum(x)
      sum_y == Sum(y)
      sum_xy == Dot(x, y)
      sum_xx == Dot(x, x)
      denominator == n * sum_xx - sum_x * sum_x
      slope_num == n * sum_xy - sum_x * sum_y
  IN  IF n < 2
        THEN [slope |-> Frac(0, 1), intercept |-> Frac(IF y # << >> THEN y[1] ELSE 0, 1)]
      ELSE IF denominator = 0
        THEN [slope |-> Frac(0, 1), intercept |-> Frac(sum_y, n)]
      ELSE [slope |-> Frac(slope_num, denominator), intercept |-> Frac(sum_y, n)]

linear_regression(x, y) ==
  LET n == Len(x)
      sum_x == Sum(x)
      sum_y == Sum(y)
      sum_xy == Dot(x, y)
      sum_xx == Dot(x, x)
      denominator == n * sum_xx - sum_x * sum_x
      slope_num == n * sum_xy - sum_x * sum_y
  IN  IF n < 2
        THEN [slope |-> Frac(0, 1), intercept |-> Frac(IF y # << >> THEN y[1] ELSE 0, 1)]
      ELSE IF denominator = 0
        THEN [slope |-> Frac(0, 1), intercept |-> Frac(sum_y, n)]
      ELSE [slope |-> Frac(slope_num, denominator),
            intercept |-> Frac(sum_y * denominator - slope_num * sum_x, n * denominator)]

\* the line evaluated hours_ahead after the first sample, not the last
predict_value_FromFirst(slope, intercept, hours_ahead, current_x) ==
  Frac(slope.num * hours_ahead * intercept.den + intercept.num * slope.den,
       slope.den * intercept.den)

predict_value(slope, intercept, hours_ahead, current_x) ==
  LET future_x == current_x + hours_ahead
  IN  Frac(slope.num * future_x * intercept.den + intercept.num * slope.den,
           slope.den * intercept.den)

None == [none |-> TRUE]
Some(a) == [none |-> FALSE, num |-> a.num, den |-> a.den]

\* the threshold test made before the slope test
calculate_time_to_threshold_ValueFirst(current_value, slope, threshold) ==
  IF current_value >= threshold THEN Some(Frac(0, 1))
  ELSE IF slope.num <= 0 THEN None
  ELSE LET hours == Frac((threshold - current_value) * slope.den, slope.num)
       IN  IF hours.num > 0 THEN Some(hours) ELSE None

calculate_time_to_threshold(current_value, slope, threshold) ==
  IF slope.num <= 0 THEN None
  ELSE IF current_value >= threshold THEN Some(Frac(0, 1))
  ELSE LET hours == Frac((threshold - current_value) * slope.den, slope.num)
       IN  IF hours.num > 0 THEN Some(hours) ELSE None

\* temp_time is not None and temp_time < 48
NearTerm(time) == ~time.none /\ FracLess(time, Frac(NEAR_TERM_HOURS, 1))
\* one entry of time_to_critical; hours is round(time, 1) in tenths
CriticalEntry(time, threshold) == [hours |-> RoundTenths(time), threshold |-> threshold]

Clamp(v) == IF v < 0 THEN 0 ELSE IF v > 100 THEN 100 ELSE v

TemperatureTrend(slope) ==
  IF FracLess(Frac(1, 2), slope) THEN "rising"
  ELSE IF FracLess(slope, Frac(-1, 2)) THEN "falling" ELSE "stable"
\* 0.01 per hour is 1 hundredth per hour
VibrationTrend(slope) ==
  IF FracLess(Frac(1, 1), slope) THEN "rising"
  ELSE IF FracLess(slope, Frac(-1, 1)) THEN "falling" ELSE "stable"
\* the two health labels taken for each other
HealthTrend_Swapped(slope) ==
  IF FracLess(slope, Frac(-1, 1)) THEN "improving"
  ELSE IF FracLess(Frac(1, 1), slope) THEN "declining" ELSE "stable"

HealthTrend(slope) ==
  IF FracLess(slope, Frac(-1, 1)) THEN "declining"
  ELSE IF FracLess(Frac(1, 1), slope) THEN "improving" ELSE "stable"

\* the 12-hour test made before the 4-hour test
RiskLevel_MediumFirst(time_to_critical) ==
  IF \E k \in DOMAIN time_to_critical : time_to_critical[k].hours < 10 * MEDIUM_RISK_HOURS
    THEN "medium"
  ELSE IF \E k \in DOMAIN time_to_critical : time_to_critical[k].hours < 10 * HIGH_RISK_HOURS
    THEN "high"
  ELSE IF DOMAIN time_to_critical # {} THEN "low"
  ELSE "stable"

RiskLevel(time_to_critical) ==
  IF \E k \in DOMAIN time_to_critical : time_to_critical[k].hours < 10 * HIGH_RISK_HOURS
    THEN "high"
  ELSE IF \E k \in DOMAIN time_to_critical : time_to_critical[k].hours < 10 * MEDIUM_RISK_HOURS
    THEN "medium"
  ELSE IF DOMAIN time_to_critical # {} THEN "low"
  ELSE "stable"

\* len(readings) < 5
InsufficientData(readings) == Len(readings) < MIN_READINGS

\* The three fitted lines of a window of readings.
Trends(readings) ==
  LET first_time == readings[1].timestamp
      x_values == [i \in 1..Len(readings) |-> readings[i].timestamp - first_time]
  IN  [current_x |-> x_values[Len(x_values)],
       temp |-> linear_regression(x_values, Temperatures(readings)),
       vib |-> linear_regression(x_values, Vibrations(readings)),
       health |-> linear_regression(x_values,
                    [i \in 1..Len(readings) |-> readings[i].health_score])]

\* None >= threshold and 100 - None raise TypeError; both are reached only
\* behind the slope tests.
PredictRaises(readings, machine) ==
  /\ ~InsufficientData(readings)
  /\ LET fit == Trends(readings)
     IN  \/ fit.temp.slope.num > 0 /\ IsNull(machine.temperature)
         \/ fit.vib.slope.num > 0 /\ IsNull(machine.vibration)
         \/ fit.health.slope.num < 0 /\ IsNull(machine.health_score)

Current(machine) ==
  [temperature |-> machine.temperature, vibration |-> machine.vibration,
   health_score |-> machine.health_score]

Horizons == {1, 4, 24}
\* f"{hours}h"
HorizonKey(hours) ==
  CASE hours = 1 -> "1h"
    [] hours = 4 -> "4h"
    [] hours = 24 -> "24h"

PredictedHealth(fit, hours) ==
  LET p == predict_value(fit.health.slope, fit.health.intercept, hours, fit.current_x)
  IN  Clamp(RoundHalfEven(p.num, p.den))

Predictions(fit) ==
  [k \in {HorizonKey(hours) : hours \in Horizons} |->
     LET hours == CHOOSE h \in Horizons : HorizonKey(h) = k
     IN  [temperature |-> RoundTenths(predict_value(fit.temp.slope, fit.temp.intercept,
                                                    hours, fit.current_x)),
          vibration |-> RoundTenths(predict_value(fit.vib.slope, fit.vib.intercept,
                                                  hours, fit.current_x)),
          health_score |-> PredictedHealth(fit, hours)]]

TemperatureTime(machine, fit) ==
  calculate_time_to_threshold(machine.temperature, fit.temp.slope, TEMP_FAILURE_THRESHOLD)
VibrationTime(machine, fit) ==
  calculate_time_to_threshold(machine.vibration, fit.vib.slope, VIBRATION_FAILURE_THRESHOLD)
\* the health taken as it is, as if higher were worse
HealthTime_NotInverted(machine, fit) ==
  calculate_time_to_threshold(machine.health_score,
                              Frac(-fit.health.slope.num, fit.health.slope.den),
                              HEALTH_CRITICAL_THRESHOLD)
\* For health the scale is inverted: lower is worse.
HealthTime(machine, fit) ==
  calculate_time_to_threshold(100 - machine.health_score,
                              Frac(-fit.health.slope.num, fit.health.slope.den),
                              100 - HEALTH_CRITICAL_THRESHOLD)

TimeToCritical(machine, fit) ==
  LET temp_time == TemperatureTime(machine, fit)
      vib_time == VibrationTime(machine, fit)
      health_time == HealthTime(machine, fit)
      keys == (IF NearTerm(temp_time) THEN {"temperature"} ELSE {})
              \cup (IF NearTerm(vib_time) THEN {"vibration"} ELSE {})
              \cup (IF fit.health.slope.num < 0 /\ NearTerm(health_time)
                      THEN {"health"} ELSE {})
  IN  [k \in keys |->
         IF k = "temperature" THEN CriticalEntry(temp_time, TEMP_FAILURE_THRESHOLD)
         ELSE IF k = "vibration" THEN CriticalEntry(vib_time, VIBRATION_FAILURE_THRESHOLD)
         ELSE CriticalEntry(health_time, HEALTH_CRITICAL_THRESHOLD)]

\* The message texts are left out.  Predicted temperatures are in tenths of
\* a degree, predicted vibrations in thousandths, hours in tenths.
predict_machine_state(db, machine, t) ==
  LET readings == get_historical_readings(db, machine.machine_id, PREDICT_HOURS, t)
      fit == Trends(readings)
      time_to_critical == TimeToCritical(machine, fit)
  IN  IF InsufficientData(readings)
        THEN [machine_id |-> machine.machine_id, has_prediction |-> FALSE,
              current |-> Current(machine)]
      ELSE IF PredictRaises(readings, machine) THEN TypeError
      ELSE [machine_id |-> machine.machine_id,
            has_prediction |-> TRUE,
            timestamp |-> t,
            current |-> Current(machine),
            trends |-> [temperature |-> TemperatureTrend(fit.temp.slope),
                        vibration |-> VibrationTrend(fit.vib.slope),
                        health |-> HealthTrend(fit.health.slope)],
            predictions |-> Predictions(fit),
            time_to_critical |-> time_to_critical,
            risk_level |-> RiskLevel(time_to_critical)]

\* dict.get(key, default); a missing label is the text "None"
Get(d, key, default) == IF key \in DOMAIN d THEN d[key] ELSE default

\* The actions in the order they are appended; "; ".join(actions) is kept as
\* the list of its parts, and the fallback text as a list of one part.
get_recommended_action(prediction) ==
  LET ttc == Get(prediction, "time_to_critical", << >>)
      trends == Get(prediction, "trends", << >>)
      actions ==
        (IF "temperature" \in DOMAIN ttc THEN << "Check cooling system and airflow" >> ELSE << >>)
        \o (IF "vibration" \in DOMAIN ttc THEN << "Inspect bearings and alignment" >> ELSE << >>)
        \o (IF "health" \in DOMAIN ttc THEN << "Perform full diagnostic" >> ELSE << >>)
        \o (IF Get(trends, "temperature", "None") = "rising"
              THEN << "Monitor temperature closely" >> ELSE << >>)
        \o (IF Get(trends, "vibration", "None") = "rising"
              THEN << "Reduce load or speed" >> ELSE << >>)
  IN  IF actions # << >> THEN actions ELSE << "Continue monitoring" >>

\* One entry of the recommendation list; the risk message is left out.
Recommendation(prediction) ==
  [machine_id |-> prediction.machine_id,
   priority |-> IF prediction.risk_level = "high" THEN "urgent" ELSE "scheduled",
   risk_level |-> prediction.risk_level,
   time_to_critical |-> Get(prediction, "time_to_critical", << >>),
   recommended_action |-> get_recommended_action(prediction)]

RECURSIVE MachinePredictions(_, _, _)
\* The forecasts of the machines in input order.
MachinePredictions(db, machines, t) ==
  IF machines = << >> THEN << >>
  ELSE << predict_machine_state(db, Head(machines), t) >>
       \o MachinePredictions(db, Tail(machines), t)

MaintenanceRaises(db, machines, t) ==
  \E i \in 1..Len(machines) :
    PredictRaises(get_historical_readings(db, machines[i].machine_id, PREDICT_HOURS, t),
                  machines[i])

RECURSIVE MapRecommendation(_)
MapRecommendation(predictions) ==
  IF predictions = << >> THEN << >>
  ELSE << Recommendation(Head(predictions)) >> \o MapRecommendation(Tail(predictions))

\* the sort left out: the entries stay in input order
SortByPriority_Unsorted(recommendations) == recommendations

\* list.sort with key 0 for urgent and 1 otherwise; the sort is stable.
SortByPriority(recommendations) ==
  SelectSeq(recommendations, LAMBDA x : x.priority = "urgent")
  \o SelectSeq(recommendations, LAMBDA x : x.priority # "urgent")

\* a machine that is stable recommended as well
AtRisk_StableToo(prediction) ==
  Get(prediction, "risk_level", "None") \in {"high", "medium", "stable"}

\* prediction.get("risk_level") in ["high", "medium"]
AtRisk(prediction) == Get(prediction, "risk_level", "None") \in {"high", "medium"}

get_maintenance_recommendations(db, machines, t) ==
  LET predictions == MachinePredictions(db, machines, t)
  IN  IF MaintenanceRaises(db, machines, t) THEN TypeError
      ELSE SortByPriority(MapRecommendation(SelectSeq(predictions, AtRisk)))

\* ------------------------- services/anomaly_detector.py: explain_anomaly
\* mean(history) if history else default, as a fraction
MeanOr(history, default) ==
  IF history # << >> THEN Frac(Sum(history), Len(history)) ELSE Frac(default, 1)

\* What one anomaly whose type contains "temperature" adds to the
\* explanations and the recommendations.  The texts are kept as templates
\* with the numbers they are filled with: change and avg_temp in tenths of
\* a degree ({:.1f}).
TemperatureExplanation(anomaly, temp_history, language) ==
  LET value == Get(anomaly, "value", 0)
      avg_temp == MeanOr(temp_history, EXPLAIN_AVG_TEMP)
      change == Frac(value * avg_temp.den - avg_temp.num, avg_temp.den)
      spiked == change.num > EXPLAIN_CHANGE * change.den
  IN  IF language = "en" THEN
        IF spiked
          THEN [explanations |->
                  << [template |-> "Temperature spiked {change} above the 6-hour average of {avg_temp}.",
                      change |-> RoundTenths(change), avg_temp |-> RoundTenths(avg_temp)],
                     [template |-> "Possible causes: coolant system failure, bearing friction, or excessive load."] >>,
                recommendations |-> << "Check coolant levels and flow rate",
                                       "Inspect bearings for wear" >>]
        ELSE IF anomaly.severity = "critical"
          THEN [explanations |->
                  << [template |-> "Temperature at {value} is in the critical zone.",
                      value |-> value] >>,
                recommendations |-> << "Consider immediate shutdown to prevent damage" >>]
        ELSE [explanations |-> << >>, recommendations |-> << >>]
      ELSE IF language = "ta" THEN
        IF spiked
          THEN [explanations |->
                  << [template |-> "ta: temperature has risen {change} above the average.",
                      change |-> RoundTenths(change)] >>,
                recommendations |-> << "ta: check the coolant system" >>]
        ELSE [explanations |-> << >>, recommendations |-> << >>]
      ELSE
        IF spiked
          THEN [explanations |->
                  << [template |-> "Temperature {change} spike aayiruchu, average {avg_temp} irundhadhu.",
                      change |-> RoundTenths(change), avg_temp |-> RoundTenths(avg_temp)] >>,
                recommendations |-> << "Coolant system check pannunga" >>]
        ELSE [explanations |-> << >>, recommendations |-> << >>]

\* What one anomaly whose type contains "vibration" adds.  The percentage
\* ((value / avg_vib - 1) * 100) is rounded to a whole number ({:.0f}).
VibrationExplanation(anomaly, vib_history, language) ==
  LET value == Get(anomaly, "value", 0)
      avg_vib == MeanOr(vib_history, EXPLAIN_AVG_VIB)
      percent == RoundHalfEven((value * avg_vib.den - avg_vib.num) * 100, avg_vib.num)
  IN  IF language = "en" THEN
        IF EXPLAIN_RATIO_DEN * value * avg_vib.den > EXPLAIN_RATIO_NUM * avg_vib.num
          THEN [explanations |->
                  << [template |-> "Vibration is {percent}% higher than normal average.",
                      percent |-> percent],
                     [template |-> "Possible causes: unbalanced load, loose components, or worn bearings."] >>,
                recommendations |-> << "Check for loose bolts and mounting",
                                       "Schedule bearing inspection" >>]
        ELSE [explanations |-> << >>, recommendations |-> << >>]
      ELSE IF language = "ta" THEN
        [explanations |-> << [template |-> "ta: vibration is {percent}% above normal.",
                              percent |-> percent] >>,
         recommendations |-> << >>]
      ELSE
        [explanations |-> << [template |-> "Vibration normal-a vida {percent}% high-aa irukku.",
                              percent |-> percent] >>,
         recommendations |-> << >>]

\* "temperature" in anomaly_type, "vibration" in anomaly_type
MentionsTemperature(type) == type \in {"temperature", "temperature_spike", "temperature_rising"}
MentionsVibration(type) == type \in {"vibration", "vibration_spike"}

AnomalyExplanation(anomaly, temp_history, vib_history, language) ==
  IF MentionsTemperature(anomaly.type)
    THEN TemperatureExplanation(anomaly, temp_history, language)
  ELSE IF MentionsVibration(anomaly.type)
    THEN VibrationExplanation(anomaly, vib_history, language)
  ELSE [explanations |-> << >>, recommendations |-> << >>]

RECURSIVE ExplainAll(_, _, _, _)
\* The loop over the anomalies, in list order.
ExplainAll(anomalies, temp_history, vib_history, language) ==
  IF anomalies = << >> THEN [explanations |-> << >>, recommendations |-> << >>]
  ELSE LET first == AnomalyExplanation(Head(anomalies), temp_history, vib_history, language)
           rest == ExplainAll(Tail(anomalies), temp_history, vib_history, language)
       IN  [explanations |-> first.explanations \o rest.explanations,
            recommendations |-> first.recommendations \o rest.recommendations]

\* The answer for a machine without anomaly; the text names the machine in
\* the language asked for, English for an unknown language.
OperatingNormally(machine, language) ==
  [machine_id |-> machine.machine_id,
   has_anomaly |-> FALSE,
   explanation |-> << [template |-> "{machine_id} is operating normally. All parameters within safe ranges.",
                       language |-> IF language \in {"en", "ta", "tanglish"} THEN language ELSE "en"] >>,
   recommendations |-> << >>]

\* The part of explain_anomaly after the detector has answered: readings
\* are the rows of the second query, that of the last 6 hours.  The
\* explanation " ".join(explanations) is kept as the list of its parts.
Explanation(anomaly_result, readings, machine, language) ==
  LET temp_history == TruthyOnly(Temperatures(readings))
      vib_history == TruthyOnly(Vibrations(readings))
      all == ExplainAll(anomaly_result.anomalies, temp_history, vib_history, language)
  IN  IF ~anomaly_result.is_anomaly THEN OperatingNormally(machine, language)
      ELSE [machine_id |-> machine.machine_id,
            has_anomaly |-> TRUE,
            severity |-> anomaly_result.overall_severity,
            explanation |-> IF all.explanations # << >> THEN all.explanations
                            ELSE << [template |-> "{message}",
                                     anomaly |-> anomaly_result.anomalies[1]] >>,
            recommendations |-> all.recommendations,
            anomaly_count |-> Len(anomaly_result.anomalies),
            anomalies |-> anomaly_result.anomalies]

\* ----------------------------------------------------------- api/control.py
\* The state a machine gets the first time it is asked about.  A missing
\* maintenance time or last action is the text "None".
NewMachineState ==
  [running |-> TRUE, speed |-> DEFAULT_SPEED, maintenance_scheduled |-> "None",
   last_action |-> "None"]

\* machine_states after get_machine_state(machine_id)
get_machine_state(states, machine_id) ==
  IF machine_id \in DOMAIN states THEN states
  ELSE [id \in DOMAIN states \cup {machine_id} |->
          IF id = machine_id THEN NewMachineState ELSE states[id]]

\* command.value or 100: None and 0 are falsy
NewSpeed(value) == IF IsNull(value) \/ value = 0 THEN DEFAULT_SPEED ELSE value

\* The state of the machine after the command and the response; status
\* 400 is the HTTPException of an unknown action.  last_action is kept as
\* the kind of the action, without its time stamp.
control_machine(state, command) ==
  IF command.action = "start" THEN
    IF state.running THEN [state |-> state, status |-> 200, success |-> FALSE]
    ELSE [state |-> [state EXCEPT !.running = TRUE, !.last_action = "Started"],
          status |-> 200, success |-> TRUE]
  ELSE IF command.action = "stop" THEN
    IF ~state.running THEN [state |-> state, status |-> 200, success |-> FALSE]
    ELSE [state |-> [state EXCEPT !.running = FALSE, !.last_action = "Stopped"],
          status |-> 200, success |-> TRUE]
  ELSE IF command.action = "adjust_speed" THEN
    IF ~state.running THEN [state |-> state, status |-> 200, success |-> FALSE]
    ELSE IF NewSpeed(command.value) < 0 \/ NewSpeed(command.value) > MAX_SPEED
      THEN [state |-> state, status |-> 200, success |-> FALSE]
    ELSE [state |-> [state EXCEPT !.speed = NewSpeed(command.value),
                                  !.last_action = "Speed adjusted"],
          status |-> 200, success |-> TRUE]
  ELSE IF command.action = "schedule_maintenance" THEN
    LET scheduled == IF command.scheduled_time # "None" THEN command.scheduled_time
                     ELSE "tomorrow 09:00"
    IN  [state |-> [state EXCEPT !.maintenance_scheduled = scheduled,
                                 !.last_action = "Maintenance scheduled"],
         status |-> 200, success |-> TRUE]
  ELSE [state |-> state, status |-> 400, success |-> FALSE]

\* ------------------------------------------------------------ the system
NoReport == [kind |-> "none"]

Init ==
  /\ store = << >>
  /\ alerts = << >>
  /\ now = 0
  /\ report = NoReport
  /\ earlier = NoReport
  /\ machine_states = << >>

Advance(hours) ==
  /\ now + hours <= MaxTime
  /\ now' = now + hours
  /\ UNCHANGED <<store, alerts, report, earlier, machine_states>>

\* The clock moves on between two requests.
Tick == report = NoReport /\ Advance(Stride)

\* GET /machines/live with one machine in the latest-data file: the health
\* is computed, the reading saved and one alert created per breach.
SaveLive(snapshots) ==
  /\ Len(store) < MaxStore
  /\ \E machine \in snapshots :
       LET health_score == CalculateHealthScore(machine)
       IN  /\ store' = Append(store, save_reading(machine, health_score,
                                                  CalculateHealthStatus(health_score), now))
           /\ alerts' = alerts \o CalculateHealthAlerts(machine)
  /\ UNCHANGED <<now, report, earlier, machine_states>>

\* No report is out while the requests are served one at a time.
Live(snapshots) == report = NoReport /\ SaveLive(snapshots)

GetLiveMachineData == Live(LiveSnapshots)

\* What a caller of detect_anomalies gets, with the snapshot it passed, the
\* hour of the call and the number of rows stored at that time.
DetectCall(machine) ==
  [kind |-> "detect", machine |-> machine, at |-> now, rows |-> Len(store),
   raised |-> DetectRaises(machine),
   result |-> detect_anomalies(store, machine, now)]

PredictCall(machine) ==
  [kind |-> "predict", machine |-> machine, at |-> now, rows |-> Len(store),
   raised |-> PredictRaises(get_historical_readings(store, machine.machine_id,
                                                    PREDICT_HOURS, now), machine),
   result |-> predict_machine_state(store, machine, now)]

\* the snapshot under test saved as a reading by the detector
Detect_Saving(snapshots) ==
  /\ report = NoReport
  /\ \E machine \in snapshots :
       /\ report' = DetectCall(machine)
       /\ store' = Append(store, save_reading(machine, 100, "Healthy", now))
  /\ UNCHANGED <<alerts, now, earlier, machine_states>>

\* One call of detect_anomalies.
Detect(snapshots) ==
  /\ report = NoReport
  /\ \E machine \in snapshots : report' = DetectCall(machine)
  /\ UNCHANGED <<store, alerts, now, earlier, machine_states>>

DetectAnomalies == Detect(DetectSnapshots)

\* One call of predict_machine_state.
Predict(snapshots) ==
  /\ report = NoReport
  /\ \E machine \in snapshots : report' = PredictCall(machine)
  /\ UNCHANGED <<store, alerts, now, earlier, machine_states>>

PredictMachineState == Predict(PredictSnapshots)

\* One request of GET /jarvis/anomalies, with the latest-data file as it is
\* at that moment.
GetAnomalies ==
  /\ report = NoReport
  /\ \E file \in LatestFiles :
       report' = [kind |-> "anomalies", file |-> file, at |-> now,
                  rows |-> Len(store),
                  raised |-> SummaryRaises(read_latest_data(file)),
                  result |-> get_anomalies(file, store, now)]
  /\ UNCHANGED <<store, alerts, now, earlier, machine_states>>

\* The caller takes the report; the next request can be served.
Return ==
  /\ report # NoReport
  /\ report' = NoReport
  /\ UNCHANGED <<store, alerts, now, earlier, machine_states>>

Next ==
  \/ Tick
  \/ GetLiveMachineData
  \/ DetectAnomalies
  \/ PredictMachineState
  \/ GetAnomalies
  \/ Return

Spec == Init /\ [][Next]_vars

\* ------------------------------------------------- the same request twice
\* A second client sends the request of the first one again, at once or
\* some hours later, to the same store; both reports are kept.
RepeatLive == {m \in LiveSnapshots : m.machine_id = "MILL-01" /\ m.temperature # 0}
RepeatDetect == {m \in DetectSnapshots :
                   m.temperature \in {62, 85} /\ m.vibration = 30 /\ m.rpm = 0}
RepeatPredict == {m \in PredictSnapshots :
                    m.temperature \in {50, 88} /\ m.vibration = 30 /\ m.health_score = 100}

\* Time passes while the first report is out.
Elapse == report # NoReport /\ earlier = NoReport /\ Advance(1)

Again ==
  /\ report # NoReport
  /\ earlier = NoReport
  /\ earlier' = report
  /\ report' = IF report.kind = "detect" THEN DetectCall(report.machine)
               ELSE PredictCall(report.machine)
  /\ UNCHANGED <<store, alerts, now, machine_states>>

NextTwice ==
  \/ Tick
  \/ Live(RepeatLive)
  \/ Detect(RepeatDetect)
  \/ Predict(RepeatPredict)
  \/ Elapse
  \/ Again

SpecTwice == Init /\ [][NextTwice]_vars

\* ---------------------------------------------------- the predictor alone
\* The readings of one machine are saved and its forecast is asked for;
\* nothing else is requested.
ForecastLive == {m \in LiveSnapshots : m.machine_id = "MILL-01"}

NextForecast ==
  \/ Tick
  \/ Live(ForecastLive)
  \/ PredictMachineState
  \/ Return

SpecForecast == Init /\ [][NextForecast]_vars

\* ------------------------------------------------------- a longer watch
\* The predictor asked over a day shift: the clock runs on beyond the six
\* hours it looks back.
LateTick ==
  /\ report = NoReport
  /\ now + Stride <= MaxLate
  /\ now' = now + Stride
  /\ UNCHANGED <<store, alerts, report, earlier, machine_states>>

LateLive == {m \in LiveSnapshots : m.temperature # 0}

NextLate ==
  \/ LateTick
  \/ Live(LateLive)
  \/ PredictMachineState
  \/ Return

SpecLate == Init /\ [][NextLate]_vars

\* ---------------------------------------------- the two numeric functions
\* linear_regression and calculate_zscore called on their own.  A series is
\* a list of x (hours) and a list of y of the same length: every series of
\* up to MaxPoints points, and the six-point lines y = a + b * x.
Samples == {50, 51, 52}
SixHours == <<0, 1, 2, 3, 4, 5>>
Lines ==
  { [x |-> SixHours, y |-> [i \in DOMAIN SixHours |-> a + b * SixHours[i]]] :
      a \in {0, 50, 100}, b \in {-2, 0, 2} }
Series ==
  UNION { { [x |-> x, y |-> y] : x \in [1..n -> 0..MaxHour], y \in [1..n -> Samples] } :
            n \in 0..MaxPoints }
  \cup Lines
Histories == UNION { [1..n -> Samples] : n \in 0..MaxValues }

LinearRegression ==
  /\ report = NoReport
  /\ \E s \in Series :
       report' = [kind |-> "linear_regression", x |-> s.x, y |-> s.y,
                  result |-> linear_regression(s.x, s.y)]
  /\ UNCHANGED <<store, alerts, now, earlier, machine_states>>

\* The z-score of a current value against a history, and the spike the
\* detector makes of it.
CalculateZscore ==
  /\ report = NoReport
  /\ \E value \in Samples \cup {60}, values \in Histories :
       report' = [kind |-> "calculate_zscore", value |-> value, values |-> values,
                  result |-> calculate_zscore(value, values),
                  spike |-> TemperatureSpike(value, values)]
  /\ UNCHANGED <<store, alerts, now, earlier, machine_states>>

NextPure == LinearRegression \/ CalculateZscore \/ Return

SpecPure == Init /\ [][NextPure]_vars

\* ------------------------------------------------------- the whole fleet
\* Three machines have been watched for an hour: each has a rising, a flat
\* or a short history in the store.  The latest-data file lists up to
\* MaxFleet of them, and the fleet-wide services are asked.
FleetMachines == {"LATHE-02", "MILL-01", "PRESS-03"}
FleetHistories == {"rising", "flat", "short"}
FleetNow == MaxTime
FleetTemps == {10, 50, 74, 92, Null}

\* A row as GET /machines/live stored it.
FleetRow(machine_id, temperature, t) ==
  LET machine == [machine_id |-> machine_id, temperature |-> temperature,
                  vibration |-> 30, rpm |-> 0]
      health_score == CalculateHealthScore(machine)
  IN  save_reading(machine, health_score, CalculateHealthStatus(health_score), t)

EarlyRows(machine_id, history) ==
  IF history = "short" THEN << FleetRow(machine_id, 50, FleetNow - 1) >>
  ELSE [i \in 1..3 |-> FleetRow(machine_id, 50, FleetNow - 1)]

LateRows(machine_id, history) ==
  IF history = "short" THEN << FleetRow(machine_id, 50, FleetNow) >>
  ELSE [i \in 1..2 |-> FleetRow(machine_id, IF history = "rising" THEN 56 ELSE 50, FleetNow)]

FleetStores ==
  { EarlyRows("LATHE-02", h[1]) \o EarlyRows("MILL-01", h[2]) \o EarlyRows("PRESS-03", h[3])
    \o LateRows("LATHE-02", h[1]) \o LateRows("MILL-01", h[2]) \o LateRows("PRESS-03", h[3]) :
      h \in FleetHistories \X FleetHistories \X FleetHistories }

FleetSnapshots ==
  { [machine_id |-> id, temperature |-> temperature, vibration |-> 30, rpm |-> 0,
     health_score |-> 100] : id \in FleetMachines, temperature \in FleetTemps }

\* The lists of snapshots of different machines, in every order.
FleetLists ==
  UNION { { machines \in [1..n -> FleetSnapshots] :
              \A i, j \in 1..n : i # j => machines[i].machine_id # machines[j].machine_id } :
          n \in 0..MaxFleet }

InitFleet ==
  /\ store \in FleetStores
  /\ alerts = << >>
  /\ now = FleetNow
  /\ report = NoReport
  /\ earlier = NoReport
  /\ machine_states = << >>

\* One call of get_maintenance_recommendations.
MaintenanceCall(machines) ==
  [kind |-> "maintenance", machines |-> machines, at |-> now, rows |-> Len(store),
   raised |-> MaintenanceRaises(store, machines, now),
   result |-> get_maintenance_recommendations(store, machines, now)]

Maintenance(lists) ==
  /\ report = NoReport
  /\ \E machines \in lists : report' = MaintenanceCall(machines)
  /\ UNCHANGED <<store, alerts, now, earlier, machine_states>>

GetMaintenanceRecommendations == Maintenance(FleetLists)

\* One call of get_anomaly_summary.
SummaryCall(machines) ==
  [kind |-> "summary", machines |-> machines, at |-> now, rows |-> Len(store),
   raised |-> SummaryRaises(machines),
   result |-> get_anomaly_summary(store, machines, now)]

Summary(lists) ==
  /\ report = NoReport
  /\ \E machines \in lists : report' = SummaryCall(machines)
  /\ UNCHANGED <<store, alerts, now, earlier, machine_states>>

GetAnomalySummary == Summary(FleetLists)

NextFleet ==
  \/ GetMaintenanceRecommendations
  \/ GetAnomalySummary
  \/ Return

SpecFleet == InitFleet /\ [][NextFleet]_vars

\* ------------------------------------------- the services side by side
\* One machine is polled and every service is asked about it.  A request
\* of GET /jarvis/explain runs beside the live endpoint: readings may be
\* saved between its two queries.
ServiceLive == {m \in LiveSnapshots : m.machine_id = "MILL-01" /\ m.temperature # 0}
ServiceSnapshots ==
  { [machine_id |-> "MILL-01", temperature |-> temperature, vibration |-> l[1],
     rpm |-> l[2], health_score |-> 100] :
      temperature \in {62, 75, 92}, l \in { <<30, 0>>, <<90, 1000>> } }
  \cup { [machine_id |-> "MILL-01", temperature |-> Null, vibration |-> 30, rpm |-> 0,
          health_score |-> 100] }
ServiceLists ==
  LET other == [machine_id |-> "LATHE-02", temperature |-> 92, vibration |-> 30, rpm |-> 0,
                health_score |-> 100]
  IN  { << >> } \cup { << m >> : m \in ServiceSnapshots }
      \cup { << m, other >> : m \in ServiceSnapshots }
      \cup { << other, m >> : m \in ServiceSnapshots }
Languages == {"en", "ta", "tanglish"}

\* explain_anomaly up to its first query: the detector has answered.  A
\* machine without anomaly is answered at once; for the others the
\* request goes on to its second query.
ExplainBegin ==
  /\ report = NoReport
  /\ \E machine \in ServiceSnapshots, language \in Languages :
       LET anomaly_result == detect_anomalies(store, machine, now)
       IN  report' =
             IF DetectRaises(machine)
               THEN [kind |-> "explain", machine |-> machine, language |-> language,
                     at |-> now, began |-> Len(store), rows |-> Len(store),
                     raised |-> TRUE, result |-> TypeError]
             ELSE IF ~anomaly_result.is_anomaly
               THEN [kind |-> "explain", machine |-> machine, language |-> language,
                     at |-> now, began |-> Len(store), rows |-> Len(store),
                     raised |-> FALSE,
                     result |-> Explanation(anomaly_result, << >>, machine, language)]
             ELSE [kind |-> "explaining", machine |-> machine, language |-> language,
                   at |-> now, began |-> Len(store), anomaly_result |-> anomaly_result]
  /\ UNCHANGED <<store, alerts, now, earlier, machine_states>>

\* GET /machines/live served while the explanation is under way.
LiveMeanwhile == report.kind = "explaining" /\ SaveLive(ServiceLive)

\* explain_anomaly from its second query to its return.
ExplainFinish ==
  /\ report.kind = "explaining"
  /\ report' = [kind |-> "explain", machine |-> report.machine,
                language |-> report.language, at |-> report.at,
                began |-> report.began, rows |-> Len(store), raised |-> FALSE,
                result |-> Explanation(report.anomaly_result,
                                       get_recent_readings(store, report.machine.machine_id,
                                                           EXPLAIN_HOURS, now),
                                       report.machine, report.language)]
  /\ UNCHANGED <<store, alerts, now, earlier, machine_states>>

\* The caller takes the answer of a finished request.
ReturnAnswer == report.kind # "explaining" /\ Return

NextServices ==
  \/ Tick
  \/ Live(ServiceLive)
  \/ Detect(ServiceSnapshots)
  \/ Predict(ServiceSnapshots)
  \/ Summary(ServiceLists)
  \/ Maintenance(ServiceLists)
  \/ ExplainBegin
  \/ LiveMeanwhile
  \/ ExplainFinish
  \/ ReturnAnswer

SpecServices == Init /\ [][NextServices]_vars

\* ------------------------------------------------ the two health scores
\* The same snapshot goes through the health calculation of GET
\* /machines/live and through that of the WebSocket stream.  The values
\* lie on both sides of each limit; Null is a metric that is null in the
\* file.
HealthTemps == {0, 50, 80, 81, 91, Null}
HealthVibs == {0, 30, 70, 71, 121, Null}
HealthRpms == {0, 3000, 3001, Null}
HealthSnapshots ==
  { [machine_id |-> "MILL-01", temperature |-> temperature, vibration |-> vibration,
     rpm |-> rpm] :
      temperature \in HealthTemps, vibration \in HealthVibs, rpm \in HealthRpms }

\* calculate_health of api/machines.py on one snapshot.
RestHealth ==
  /\ report = NoReport
  /\ \E machine \in HealthSnapshots :
       report' = [kind |-> "rest_health", machine |-> machine,
                  raised |-> HealthRaises(machine),
                  result |-> IF HealthRaises(machine) THEN TypeError
                             ELSE LET score == CalculateHealthScore(machine)
                                  IN  [score |-> score,
                                       status |-> CalculateHealthStatus(score)]]
  /\ UNCHANGED <<store, alerts, now, earlier, machine_states>>

\* calculate_health of api/websocket.py on one snapshot.
StreamHealth ==
  /\ report = NoReport
  /\ \E machine \in HealthSnapshots :
       report' = [kind |-> "stream_health", machine |-> machine,
                  raised |-> HealthRaises(machine),
                  result |-> IF HealthRaises(machine) THEN TypeError
                             ELSE calculate_health(machine)]
  /\ UNCHANGED <<store, alerts, now, earlier, machine_states>>

NextHealth == RestHealth \/ StreamHealth \/ Return

SpecHealth == Init /\ [][NextHealth]_vars

\* ------------------------------------------------------ machine control
\* Commands are posted to two machines, one after the other.
ControlMachines == {"MILL-01", "LATHE-02"}
ControlValues == {Null, -1, 0, 75, 150, 151}
Commands ==
  { [action |-> action, value |-> Null, scheduled_time |-> "None"] :
      action \in {"start", "stop", "schedule_maintenance", "reboot"} }
  \cup { [action |-> "adjust_speed", value |-> value, scheduled_time |-> "None"] :
           value \in ControlValues }
  \cup { [action |-> "schedule_maintenance", value |-> Null,
          scheduled_time |-> "2026-01-01 10:00"] }

\* POST /machines/{machine_id}/control; before is the state of the machine
\* as the command found it.
ControlMachine ==
  /\ report = NoReport
  /\ \E machine_id \in ControlMachines, command \in Commands :
       LET states == get_machine_state(machine_states, machine_id)
           outcome == control_machine(states[machine_id], command)
       IN  /\ machine_states' = [states EXCEPT ![machine_id] = outcome.state]
           /\ report' = [kind |-> "control", machine_id |-> machine_id,
                         command |-> command, before |-> states[machine_id],
                         status |-> outcome.status, success |-> outcome.success]
  /\ UNCHANGED <<store, alerts, now, earlier>>

NextControl == ControlMachine \/ Return

SpecControl == Init /\ [][NextControl]_vars

\* ================================================================ claims
\* A report of detect_anomalies that was returned (no exception).
Detected == report.kind = "detect" /\ ~report.raised
Anomalies == report.result.anomalies
OfType(type) == SelectSeq(Anomalies, LAMBDA a : a.type = type)
\* The stored rows of the reported machine, and those of the last 2 hours,
\* newest first, as the claims speak of them.  No request is served while
\* a report is out, so the store is the one the report was computed from.
HistoryOf(machine_id) == Reverse(SelectSeq(store, LAMBDA r : r.machine_id = machine_id))
Window == SelectSeq(HistoryOf(report.machine.machine_id),
                    LAMBDA r : report.at - r.timestamp <= 2)

Rank(severity) ==
  CASE severity = "critical" -> 3
    [] severity = "anomaly" -> 2
    [] severity = "warning" -> 1
    [] OTHER -> 0
HighestRank(as) ==
  IF as = << >> THEN 0
  ELSE CHOOSE k \in 0..3 : /\ \E i \in 1..Len(as) : Rank(as[i].severity) = k
                           /\ \A i \in 1..Len(as) : Rank(as[i].severity) <= k

\* C1: in every returned report overall_severity is the highest-ranked
\* severity of the emitted anomalies (critical > anomaly > warning > normal)
\* and it is normal exactly when the anomaly list is empty.
C1_OverallSeverity ==
  Detected =>
    /\ Rank(report.result.overall_severity) = HighestRank(Anomalies)
    /\ report.result.overall_severity \in {"critical", "anomaly", "warning", "normal"}
    /\ (report.result.overall_severity = "normal") <=> (Anomalies = << >>)

\* a report holding a warning and a spike anomaly but nothing critical
C1_Witness ==
  /\ Detected
  /\ Has(Severities(Anomalies), "warning")
  /\ Has(Severities(Anomalies), "anomaly")
  /\ report.result.overall_severity = "anomaly"

\* C2: at most one temperature anomaly, by the first matching branch:
\* critical from 85, warning from 75, warning below 15, none in between.
C2_TemperatureBranch ==
  Detected =>
    LET t == report.machine.temperature
        found == OfType("temperature")
    IN  /\ Len(found) <= 1
        /\ t >= 85 => Len(found) = 1 /\ found[1].severity = "critical"
        /\ (t >= 75 /\ t < 85) => Len(found) = 1 /\ found[1].severity = "warning"
        /\ t < 15 => Len(found) = 1 /\ found[1].severity = "warning"
        /\ (t >= 15 /\ t < 75) => found = << >>
        /\ \A i \in 1..Len(found) : found[i].value = t

\* temperature exactly 85 reported as one critical temperature anomaly
C2_Witness ==
  /\ Detected
  /\ report.machine.temperature = 85
  /\ Len(OfType("temperature")) = 1
  /\ OfType("temperature")[1].severity = "critical"

\* C3: at most one vibration anomaly (critical from 0.9, warning from 0.6)
\* and at most one rpm anomaly (critical from 3200, warning from 2800);
\* low vibration or rpm gives none.
C3_VibrationRpmBranch ==
  Detected =>
    LET v == report.machine.vibration
        r == report.machine.rpm
        vibs == OfType("vibration")
        rpms == OfType("rpm")
    IN  /\ Len(vibs) <= 1 /\ Len(rpms) <= 1
        /\ v >= 90 => Len(vibs) = 1 /\ vibs[1].severity = "critical"
        /\ (v >= 60 /\ v < 90) => Len(vibs) = 1 /\ vibs[1].severity = "warning"
        /\ v < 60 => vibs = << >>
        /\ r >= 3200 => Len(rpms) = 1 /\ rpms[1].severity = "critical"
        /\ (r >= 2800 /\ r < 3200) => Len(rpms) = 1 /\ rpms[1].severity = "warning"
        /\ r < 2800 => rpms = << >>

\* vibration exactly 0.6 with rpm 1000: one vibration warning, no rpm anomaly
C3_Witness ==
  /\ Detected
  /\ report.machine.vibration = 60
  /\ report.machine.rpm = 1000
  /\ Len(OfType("vibration")) = 1
  /\ OfType("vibration")[1].severity = "warning"
  /\ OfType("rpm") = << >>

\* The statistical conditions as the detector's rules state them: samples
\* are the non-zero values of the window; |z| > 2.5 needs 5 of them.
SamplesOf(values) == SelectSeq(values, LAMBDA v : v # Null /\ v # 0)
ZAbove(value, samples) ==
  LET n == Len(samples)
      spread == n * SumSq(samples) - Sum(samples) * Sum(samples)
      dev == n * value - Sum(samples)
  IN  n >= 3 /\ spread > 0 /\ 4 * (n - 1) * dev * dev > 25 * n * spread
SpikeQualifies(value, samples) == Len(samples) >= 5 /\ ZAbove(value, samples)
RiseQualifies ==
  LET temps == SamplesOf(Temperatures(Take(Window, 5)))
  IN  Len(Window) >= 2 /\ Len(temps) >= 2 /\ temps[1] - temps[Len(temps)] > 10
NothingStatistical ==
  /\ ~SpikeQualifies(report.machine.temperature, SamplesOf(Temperatures(Window)))
  /\ ~SpikeQualifies(report.machine.vibration, SamplesOf(Vibrations(Window)))
  /\ ~RiseQualifies
Quiet == report.result.overall_severity = "normal" /\ Anomalies = << >>

\* C4 as stated: temperature < 75, vibration < 0.6, rpm < 2800 and no
\* qualifying z-score or rate-of-change condition give a normal, empty report.
C4_Original ==
  (Detected /\ report.machine.temperature < 75 /\ report.machine.vibration < 60
     /\ report.machine.rpm < 2800 /\ NothingStatistical) => Quiet

\* C4 amended: the same with the temperature also at least 15 (below 15
\* the detector warns of an abnormally low temperature).
C4_QuietWithinLimits ==
  (Detected /\ report.machine.temperature >= 15 /\ report.machine.temperature < 75
     /\ report.machine.vibration < 60 /\ report.machine.rpm < 2800
     /\ NothingStatistical) => Quiet

\* a quiet report over a window of at least five stored rows
C4_Witness ==
  /\ Detected
  /\ report.machine.temperature = 62 /\ report.machine.vibration = 30
  /\ report.machine.rpm = 0
  /\ Len(Window) >= 5
  /\ NothingStatistical
  /\ Quiet

\* The values a stored metric carries in the window: every value that is
\* not null, 0 included.
NonNull(values) == SelectSeq(values, LAMBDA v : v # Null)

\* C5: no temperature_spike (vibration_spike) with fewer than 5 historical
\* temperature (vibration) samples in the 2-hour window, whatever the
\* deviation of the current value.
C5_NoSpikeBelowFiveSamples ==
  Detected =>
    /\ Len(NonNull(Temperatures(Window))) < 5 => OfType("temperature_spike") = << >>
    /\ Len(NonNull(Vibrations(Window))) < 5 => OfType("vibration_spike") = << >>

\* exactly 4 samples whose z-score for the current value is beyond 2.5,
\* and no spike reported
C5_Witness ==
  /\ Detected
  /\ Len(Window) = 4
  /\ ZAbove(report.machine.temperature, NonNull(Temperatures(Window)))
  /\ ZAbove(report.machine.vibration, NonNull(Vibrations(Window)))
  /\ OfType("temperature_spike") = << >>
  /\ OfType("vibration_spike") = << >>

\* C6: with at least 5 stored readings of the window carrying a non-null
\* temperature (0 included) and |z| > 2.5 of the current temperature
\* against those values, a temperature_spike of severity anomaly is
\* emitted; likewise for vibration and vibration_spike.
C6_SpikeEmitted ==
  Detected =>
    /\ (Len(NonNull(Temperatures(Window))) >= 5
          /\ ZAbove(report.machine.temperature, NonNull(Temperatures(Window))))
       => \E i \in 1..Len(Anomalies) :
            Anomalies[i].type = "temperature_spike" /\ Anomalies[i].severity = "anomaly"
    /\ (Len(NonNull(Vibrations(Window))) >= 5
          /\ ZAbove(report.machine.vibration, NonNull(Vibrations(Window))))
       => \E i \in 1..Len(Anomalies) :
            Anomalies[i].type = "vibration_spike" /\ Anomalies[i].severity = "anomaly"

\* The 5 most recent readings of the window, newest first.
Recent5 == Take(Window, 5)
Rising == OfType("temperature_rising")

ThresholdTypes == {"temperature", "vibration", "rpm"}

\* C8: with no stored history for the machine only threshold anomalies are
\* emitted; temperature >= 85 with vibration < 0.6 and rpm < 2800 gives
\* exactly one anomaly {temperature, critical, value = temperature} and
\* overall_severity critical.
C8_NoHistory ==
  (Detected /\ HistoryOf(report.machine.machine_id) = << >>) =>
    /\ \A i \in 1..Len(Anomalies) : Anomalies[i].type \in ThresholdTypes
    /\ (report.machine.temperature >= 85 /\ report.machine.vibration < 60
          /\ report.machine.rpm < 2800)
       => /\ Len(Anomalies) = 1
          /\ Anomalies[1].type = "temperature"
          /\ Anomalies[1].severity = "critical"
          /\ Anomalies[1].value = report.machine.temperature
          /\ report.result.overall_severity = "critical"
          /\ report.result.anomaly_count = 1

\* the snapshot {92, 0.3, 0} while only another machine has stored rows
C8_Witness ==
  /\ Detected
  /\ HistoryOf(report.machine.machine_id) = << >>
  /\ Len(store) >= 2
  /\ report.machine.temperature = 92 /\ report.machine.vibration = 30
  /\ report.machine.rpm = 0
  /\ Len(Anomalies) = 1
  /\ report.result.overall_severity = "critical"

\* Two answered requests for the same snapshot, served from the same rows.
SameRequest ==
  /\ earlier # NoReport
  /\ earlier.kind = report.kind
  /\ earlier.machine = report.machine
  /\ earlier.rows = report.rows
\* The rows a call looks back on: 2 hours for the detector, 6 for the
\* predictor.
LookBack(call) == IF call.kind = "detect" THEN 2 ELSE 6
WindowAt(call) ==
  SelectSeq(store, LAMBDA r : r.machine_id = call.machine.machine_id
                              /\ call.at - r.timestamp <= LookBack(call))
SansTimestamp(result) == [k \in DOMAIN result \ {"timestamp"} |-> result[k]]

\* C9 as stated: two invocations of detect_anomalies (predict_machine_state)
\* on the same stored data and the same snapshot return reports identical
\* in every field.
C9_Original == SameRequest => earlier.result = report.result

\* C9 amended: two invocations on the same snapshot whose look-back windows
\* hold the same stored readings return reports identical in every field
\* other than timestamp (and raise alike).
C9_SameWindowSameReport ==
  (SameRequest /\ WindowAt(earlier) = WindowAt(report)) =>
    /\ earlier.raised = report.raised
    /\ SansTimestamp(earlier.result) = SansTimestamp(report.result)

\* the detector asked twice, two hours apart, over the same five rows, a
\* rising temperature reported both times
C9_Witness ==
  /\ SameRequest
  /\ report.kind = "detect"
  /\ report.at = earlier.at + 2
  /\ WindowAt(earlier) = WindowAt(report)
  /\ Len(WindowAt(report)) = 5
  /\ report.result.anomalies # << >>
  /\ earlier.result # report.result

SnapshotHasNull(machine) ==
  \E k \in DOMAIN machine \ {"machine_id"} : machine[k] = Null
\* C10: with a null temperature, vibration, rpm or health_score in the
\* snapshot, detect_anomalies and predict_machine_state still return a
\* report and raise no exception.
C10_NullTolerated ==
  (report.kind \in {"detect", "predict"} /\ SnapshotHasNull(report.machine)) =>
    ~report.raised /\ report.result # TypeError

\* C11: a request for the anomalies whose read of the latest-data file
\* failed is not answered like a request that found nothing wrong: the
\* answer is not a success with an empty anomaly list.
C11_FailedReadReported ==
  (report.kind = "anomalies" /\ report.file.state = "unreadable") =>
    ~(report.result.status = 200 /\ report.result.body.anomalies = << >>)

\* A report of predict_machine_state that was returned (no exception), and
\* one that carries predictions.
Predicted == report.kind = "predict" /\ ~report.raised
Forecast == Predicted /\ report.result.has_prediction
ForecastFields == {"trends", "predictions", "time_to_critical", "risk_level"}

\* C12: a returned report has has_prediction = false exactly when fewer
\* than 5 readings of the machine lie in the last 6 hours, and then none of
\* trends, predictions, time_to_critical, risk_level; with 5 or more it has
\* has_prediction = true and all four.
C12_HasPrediction ==
  Predicted =>
    LET n == Len(WindowAt(report))
    IN  /\ report.result.has_prediction = (n >= 5)
        /\ n < 5 => DOMAIN report.result \cap ForecastFields = {}
        /\ n >= 5 => ForecastFields \subseteq DOMAIN report.result

\* five rows of the machine stored, but not five of them in the last six
\* hours: no prediction
C12_Witness ==
  /\ Predicted
  /\ Len(HistoryOf(report.machine.machine_id)) = 5
  /\ Len(WindowAt(report)) \in 1..4
  /\ ~report.result.has_prediction

Regressed == report.kind = "linear_regression"
\* y[i] = a + b * x[i] at every point, for a and b counted in halves
OnLine(x, y, a, b) == \A i \in DOMAIN x : 2 * y[i] = a + b * x[i]
AllSame(values) == \A i, j \in DOMAIN values : values[i] = values[j]
\* the fraction f is the number num / den
IsValue(f, num, den) == f.den # 0 /\ f.num * den = num * f.den

\* C13: for a series y[i] = a + b * x[i] of at least 2 points whose x are
\* not all equal, linear_regression returns slope b and intercept a; for
\* 50 + 2 * i over the hours 0..5 it returns slope 2 and intercept 50.
C13_LinearSeriesRecovered ==
  Regressed =>
    \A a \in -10..210, b \in -5..5 :
      (Len(report.x) >= 2 /\ ~AllSame(report.x) /\ OnLine(report.x, report.y, a, b))
        => IsValue(report.result.slope, b, 2) /\ IsValue(report.result.intercept, a, 2)

\* the series 50, 52, .., 60 over the hours 0..5 fitted with slope 2 and
\* intercept 50
C13_Witness ==
  /\ Regressed
  /\ report.x = <<0, 1, 2, 3, 4, 5>>
  /\ report.y = <<50, 52, 54, 56, 58, 60>>
  /\ IsValue(report.result.slope, 2, 1)
  /\ IsValue(report.result.intercept, 50, 1)

HoursSinceFirst(rows) == [i \in DOMAIN rows |-> rows[i].timestamp - rows[1].timestamp]
Metric(rows, name) == [i \in DOMAIN rows |-> rows[i][name]]
Cov(x, y) ==
  Sum([i \in DOMAIN x |-> Sum([j \in DOMAIN x |-> (x[i] - x[j]) * (y[i] - y[j])])]) \div 2
\* the fitted slope of y over x as a fraction with a positive denominator
SlopeOf(x, y) ==
  LET var == Cov(x, x)
  IN  IF var = 0 THEN [num |-> 0, den |-> 1] ELSE [num |-> Cov(x, y), den |-> var]
\* the fitted line of y over x: its slope and the point (mean x, mean y)
\* it passes through, the means as sums over n
LineOf(x, y) == [slope |-> SlopeOf(x, y), n |-> Len(x), sum_x |-> Sum(x), sum_y |-> Sum(y)]
\* the line at hour at: mean(y) + slope * (at - mean(x))
LineAt(line, at) ==
  [num |-> line.sum_y * line.slope.den + line.slope.num * (line.n * at - line.sum_x),
   den |-> line.n * line.slope.den]
HoursOf(key) == CASE key = "1h" -> 1 [] key = "4h" -> 4 [] key = "24h" -> 24
Abs(v) == IF v < 0 THEN -v ELSE v
\* r is a whole number nearest to f
Nearest(r, f) == 2 * Abs(f.num - r * f.den) <= f.den
Tenfold(f) == [num |-> 10 * f.num, den |-> f.den]
Forecasts == report.result.predictions

\* C15 as stated: predictions has exactly the keys 1h, 4h and 24h, each
\* value is slope * (x_last + horizon) + intercept of the metric's fitted
\* line, and every predicted health_score lies in [0, 100].
C15_Original ==
  Forecast =>
    LET rows == WindowAt(report)
        x == HoursSinceFirst(rows)
        temps == LineOf(x, Metric(rows, "temperature"))
        vibs == LineOf(x, Metric(rows, "vibration"))
        healths == LineOf(x, Metric(rows, "health_score"))
    IN  /\ DOMAIN Forecasts = {"1h", "4h", "24h"}
        /\ \A k \in DOMAIN Forecasts :
             LET at == x[Len(x)] + HoursOf(k)
                 temp == LineAt(temps, at)
                 vib == LineAt(vibs, at)
                 health == LineAt(healths, at)
             IN  /\ Forecasts[k].temperature * temp.den = 10 * temp.num
                 /\ Forecasts[k].vibration * vib.den = 10 * vib.num
                 /\ Forecasts[k].health_score * health.den = health.num
                 /\ Forecasts[k].health_score \in 0..100

\* C15 amended: each value is that of the fitted line rounded: the
\* temperature to one decimal, the vibration to three, the health score to
\* a whole number that is then clamped to [0, 100].
C15_RoundedLine ==
  Forecast =>
    LET rows == WindowAt(report)
        x == HoursSinceFirst(rows)
        temps == LineOf(x, Metric(rows, "temperature"))
        vibs == LineOf(x, Metric(rows, "vibration"))
        healths == LineOf(x, Metric(rows, "health_score"))
    IN  /\ DOMAIN Forecasts = {"1h", "4h", "24h"}
        /\ \A k \in DOMAIN Forecasts :
             LET at == x[Len(x)] + HoursOf(k)
                 health == LineAt(healths, at)
                 h == Forecasts[k].health_score
             IN  /\ Nearest(Forecasts[k].temperature, Tenfold(LineAt(temps, at)))
                 /\ Nearest(Forecasts[k].vibration, Tenfold(LineAt(vibs, at)))
                 /\ h \in 0..100
                 /\ \/ Nearest(h, health)
                    \/ h = 0 /\ health.num < 0
                    \/ h = 100 /\ health.num > 100 * health.den

\* a forecast over readings three hours apart whose 24h health score is
\* clamped to 0 and whose 1h temperature is a rounded one
C15_Witness ==
  /\ Forecast
  /\ LET rows == WindowAt(report)
         x == HoursSinceFirst(rows)
         temp == LineAt(LineOf(x, Metric(rows, "temperature")), 4)
     IN  /\ x[Len(x)] = 3
         /\ Forecasts["24h"].health_score = 0
         /\ LineAt(LineOf(x, Metric(rows, "health_score")), 27).num < 0
         /\ Forecasts["1h"].temperature * temp.den # 10 * temp.num

Critical == report.result.time_to_critical
\* the fitted slope of a metric over the window of the forecast
FittedSlope(name) ==
  LET rows == WindowAt(report)
  IN  SlopeOf(HoursSinceFirst(rows), Metric(rows, name))

\* C16: with a fitted temperature slope <= 0 time_to_critical has no
\* temperature entry, be the current temperature below, at or above 90;
\* likewise for vibration and its threshold 1.0.
C16_NoEntryWithoutRise ==
  Forecast =>
    /\ FittedSlope("temperature").num <= 0 => "temperature" \notin DOMAIN Critical
    /\ FittedSlope("vibration").num <= 0 => "vibration" \notin DOMAIN Critical

\* the temperature at 92, above the threshold, while the fitted line
\* falls: no temperature entry
C16_Witness ==
  /\ Forecast
  /\ report.machine.temperature = 92
  /\ FittedSlope("temperature").num < 0
  /\ "temperature" \notin DOMAIN Critical

\* What C17 says of one rising metric: with the current value at or past
\* the threshold the entry is there with hours = 0; below it the time is
\* (threshold - current) / slope, the entry is left out exactly when that
\* time exceeds 48 hours, and its hours are that time to one decimal.
RisingEntry(name, current, slope, threshold) ==
  LET time == [num |-> (threshold - current) * slope.den, den |-> slope.num]
  IN  IF current >= threshold
        THEN name \in DOMAIN Critical /\ Critical[name].hours = 0
      ELSE /\ (name \notin DOMAIN Critical) <=> (time.num > 48 * time.den)
           /\ name \in DOMAIN Critical => Nearest(Critical[name].hours, Tenfold(time))

\* C17: for temperature (threshold 90) and vibration (threshold 1.0) with a
\* fitted slope > 0, the time_to_critical entry is present with hours = 0
\* when the current value is at or past the threshold; otherwise the time
\* is (threshold - current) / slope and the entry is omitted exactly when
\* that time exceeds 48 hours.
C17_RisingEntries ==
  Forecast =>
    /\ FittedSlope("temperature").num > 0 =>
         RisingEntry("temperature", report.machine.temperature,
                     FittedSlope("temperature"), 90)
    /\ FittedSlope("vibration").num > 0 =>
         RisingEntry("vibration", report.machine.vibration,
                     FittedSlope("vibration"), 100)

\* C18: time_to_critical has a health entry only when the fitted health
\* slope is negative; then the time is (current_health - 40) / (-slope),
\* or 0 when current_health <= 40, the entry is there for a time below 48
\* hours and left out for a time above, and its hours are that time to one
\* decimal.
C18_HealthEntry ==
  Forecast =>
    LET slope == FittedSlope("health_score")
        health == report.machine.health_score
        time == [num |-> (health - 40) * slope.den, den |-> -slope.num]
    IN  /\ "health" \in DOMAIN Critical => slope.num < 0
        /\ slope.num < 0 =>
             IF health <= 40
               THEN "health" \in DOMAIN Critical /\ Critical["health"].hours = 0
             ELSE /\ time.num < 48 * time.den => "health" \in DOMAIN Critical
                  /\ time.num > 48 * time.den => "health" \notin DOMAIN Critical
                  /\ "health" \in DOMAIN Critical =>
                       Nearest(Critical["health"].hours, Tenfold(time))

\* a health score of 100 on a falling line: an entry some hours away,
\* with threshold 40
C18_Witness ==
  /\ Forecast
  /\ report.machine.health_score = 100
  /\ FittedSlope("health_score").num < 0
  /\ "health" \in DOMAIN Critical
  /\ Critical["health"].hours > 0
  /\ Critical["health"].threshold = 40

\* the entries of time_to_critical whose hours (in tenths) are below a limit
Within(tenths) == {k \in DOMAIN Critical : Critical[k].hours < tenths}

\* C19: risk_level is high if some entry has hours < 4; else medium if
\* some entry has hours < 12; else low if time_to_critical is not empty;
\* else stable.  So it is stable exactly when time_to_critical is empty.
C19_RiskLevel ==
  Forecast =>
    LET risk == report.result.risk_level
    IN  /\ risk \in {"high", "medium", "low", "stable"}
        /\ (risk = "high") <=> (Within(40) # {})
        /\ (risk = "medium") <=> (Within(40) = {} /\ Within(120) # {})
        /\ (risk = "low") <=> (Within(120) = {} /\ DOMAIN Critical # {})
        /\ (risk = "stable") <=> (DOMAIN Critical = {})

\* two entries, one 9 hours away and none nearer than 4: medium
C19_Witness ==
  /\ Forecast
  /\ Cardinality(DOMAIN Critical) = 2
  /\ \E k \in DOMAIN Critical : Critical[k].hours = 90
  /\ Within(40) = {}
  /\ report.result.risk_level = "medium"

\* C20: the temperature label is rising iff the fitted slope > 0.5,
\* falling iff it is < -0.5, else stable; the vibration label is rising iff
\* the slope > 0.01, falling iff < -0.01, else stable; the health label is
\* declining iff the slope < -1, improving iff > 1, else stable.
C20_TrendLabels ==
  Forecast =>
    LET trends == report.result.trends
        temp == FittedSlope("temperature")
        vib == FittedSlope("vibration")
        health == FittedSlope("health_score")
    IN  /\ trends.temperature \in {"rising", "falling", "stable"}
        /\ (trends.temperature = "rising") <=> (2 * temp.num > temp.den)
        /\ (trends.temperature = "falling") <=> (2 * temp.num < -temp.den)
        /\ trends.vibration \in {"rising", "falling", "stable"}
        /\ (trends.vibration = "rising") <=> (vib.num > vib.den)
        /\ (trends.vibration = "falling") <=> (vib.num < -vib.den)
        /\ trends.health \in {"declining", "improving", "stable"}
        /\ (trends.health = "declining") <=> (health.num < -health.den)
        /\ (trends.health = "improving") <=> (health.num > health.den)

\* a rising temperature and a declining health, with a vibration that
\* climbs too slowly to be called rising
C20_Witness ==
  /\ Forecast
  /\ report.result.trends.temperature = "rising"
  /\ report.result.trends.health = "declining"
  /\ report.result.trends.vibration = "stable"
  /\ FittedSlope("vibration").num > 0



\* ------------------------------------------------- fleet-wide services
\* A list of recommendations that was returned (no exception).
Maintained == report.kind = "maintenance" /\ ~report.raised
\* The risk level the predictor gives a listed machine at the time of the
\* call; "None" when it gives no forecast.
RiskOf(machine) ==
  LET prediction == predict_machine_state(store, machine, report.at)
  IN  IF "risk_level" \in DOMAIN prediction THEN prediction.risk_level ELSE "None"
EntriesFor(machine_id) == SelectSeq(report.result, LAMBDA x : x.machine_id = machine_id)
Listed(machine_id) == \E i \in DOMAIN report.machines : report.machines[i].machine_id = machine_id
SnapshotOf(machine_id) ==
  report.machines[CHOOSE i \in DOMAIN report.machines :
                    report.machines[i].machine_id = machine_id]

\* C21: get_maintenance_recommendations returns exactly one entry for each
\* listed machine whose predicted risk level is high or medium and none for
\* any other machine; an entry is urgent iff its risk level is high and
\* scheduled iff it is medium; every urgent entry precedes every scheduled one.
C21_OneEntryPerMachineAtRisk ==
  Maintained =>
    /\ \A i \in DOMAIN report.machines :
         Len(EntriesFor(report.machines[i].machine_id))
           = IF RiskOf(report.machines[i]) \in {"high", "medium"} THEN 1 ELSE 0
    /\ \A k \in DOMAIN report.result :
         /\ Listed(report.result[k].machine_id)
         /\ report.result[k].risk_level = RiskOf(SnapshotOf(report.result[k].machine_id))
         /\ report.result[k].priority = "urgent" <=> report.result[k].risk_level = "high"
         /\ report.result[k].priority = "scheduled" <=> report.result[k].risk_level = "medium"
    /\ \A j, k \in DOMAIN report.result :
         j < k => ~(report.result[j].priority = "scheduled"
                    /\ report.result[k].priority = "urgent")

\* A medium risk listed before a high one and a low one: two entries come
\* back, the urgent one moved to the front.
C21_Witness ==
  /\ Maintained
  /\ Len(report.machines) = 3
  /\ RiskOf(report.machines[1]) = "medium"
  /\ RiskOf(report.machines[2]) = "high"
  /\ RiskOf(report.machines[3]) = "low"
  /\ Len(report.result) = 2
  /\ report.result[1].machine_id = report.machines[2].machine_id
  /\ report.result[2].machine_id = report.machines[1].machine_id


\* The place of an entry in the order of the claim: urgent before scheduled;
\* the list holds no anomaly entries.  Machine ids in ascending order.
PriorityRank(entry) == IF entry.priority = "urgent" THEN 1 ELSE 2
IdRank(machine_id) ==
  CASE machine_id = "LATHE-02" -> 1
    [] machine_id = "MILL-01" -> 2
    [] machine_id = "PRESS-03" -> 3

\* C22: the recommendation list is totally ordered: urgent maintenance
\* before scheduled maintenance, and entries of equal rank in ascending
\* machine_id order, whatever the order of the input machines.
C22_TotalOrder ==
  Maintained =>
    \A j, k \in DOMAIN report.result :
      j < k =>
        \/ PriorityRank(report.result[j]) < PriorityRank(report.result[k])
        \/ /\ PriorityRank(report.result[j]) = PriorityRank(report.result[k])
           /\ IdRank(report.result[j].machine_id) < IdRank(report.result[k].machine_id)



\* ------------------------------------------------ the services side by side
\* The reports of the five read-only services; "explaining" is an
\* explanation between its two queries.
ServiceKinds == {"detect", "explaining", "explain", "summary", "predict", "maintenance"}

\* C23: detect_anomalies, explain_anomaly, get_anomaly_summary,
\* predict_machine_state and get_maintenance_recommendations leave the
\* Reading Store as it is: a step in which one of them answers adds,
\* changes or deletes no reading and no alert, and keeps nothing else.
C23_StoreUntouched ==
  [][ (report' # report /\ report'.kind \in ServiceKinds)
        => UNCHANGED <<store, alerts, now, earlier, machine_states>> ]_vars

\* Recommendations were returned over a store that holds readings and
\* alerts, and the store has as many rows as when the call was made.
C23_Witness ==
  /\ Maintained
  /\ Len(report.result) > 0
  /\ alerts # << >>
  /\ Len(store) = report.rows


\* What explain_anomaly answers when both of its queries see the store db.
ExplainedFrom(db) ==
  Explanation(detect_anomalies(db, report.machine, report.at),
              get_recent_readings(db, report.machine.machine_id, EXPLAIN_HOURS, report.at),
              report.machine, report.language)

\* C24: while readings are appended, each result of detect_anomalies,
\* predict_machine_state and explain_anomaly is computed from one snapshot
\* of the store: it is the result over one of the states the store was in
\* during the call.
C24_OneSnapshot ==
  /\ (report.kind = "detect" /\ ~report.raised)
       => report.result = detect_anomalies(Take(store, report.rows), report.machine, report.at)
  /\ (report.kind = "predict" /\ ~report.raised)
       => report.result = predict_machine_state(Take(store, report.rows), report.machine,
                                                report.at)
  /\ (report.kind = "explain" /\ ~report.raised)
       => \E k \in report.began..report.rows : report.result = ExplainedFrom(Take(store, k))


\* An explanation that was returned (no exception).
Explained == report.kind = "explain" /\ ~report.raised
\* The texts of an explanation without the numbers they are filled with.
Templates(explanation) == [i \in DOMAIN explanation |-> explanation[i].template]
\* What the detector found for the explained machine when the call began.
Found == detect_anomalies(Take(store, report.began), report.machine, report.at)

\* C25: explain_anomaly answers has_anomaly = false with the
\* operating-normally text and no recommendations exactly when the
\* detector finds no anomaly; otherwise has_anomaly = true with the
\* detector's severity, anomaly list and count; and no threshold but the
\* detector's decides what is explained: over any earlier state of the
\* store for which the detector gives the same anomaly list, the same
\* texts and the same recommendations come back, only the numbers in them
\* following the historical means.
C25_ExplanationFollowsDetector ==
  Explained =>
    /\ ~report.result.has_anomaly <=> ~Found.is_anomaly
    /\ ~report.result.has_anomaly =>
         /\ report.result.recommendations = << >>
         /\ Templates(report.result.explanation)
              = << "{machine_id} is operating normally. All parameters within safe ranges." >>
    /\ report.result.has_anomaly =>
         /\ report.result.severity = Found.overall_severity
         /\ report.result.anomalies = Found.anomalies
         /\ report.result.anomaly_count = Len(Found.anomalies)
         /\ \A k \in 0..Len(store) :
              LET other == ExplainedFrom(Take(store, k))
              IN  (other.has_anomaly /\ other.anomalies = report.result.anomalies)
                    => /\ other.recommendations = report.result.recommendations
                       /\ Templates(other.explanation) = Templates(report.result.explanation)


\* ------------------------------------------------ the shape of a report
\* The order in which detect_anomalies appends its findings.
TypeOrder == << "temperature", "vibration", "rpm", "temperature_spike",
                "vibration_spike", "temperature_rising" >>
Place(type) == CHOOSE i \in DOMAIN TypeOrder : TypeOrder[i] = type

\* C26: in every report of detect_anomalies the anomalies list is a
\* subsequence of temperature, vibration, rpm, temperature_spike,
\* vibration_spike, temperature_rising with each type at most once (at most
\* 6 anomalies), anomaly_count is the length of the list, and is_anomaly
\* holds iff overall_severity is not normal.
C26_ReportShape ==
  Detected =>
    /\ \A i \in DOMAIN Anomalies : \E p \in DOMAIN TypeOrder : TypeOrder[p] = Anomalies[i].type
    /\ \A i, j \in DOMAIN Anomalies :
         i < j => Place(Anomalies[i].type) < Place(Anomalies[j].type)
    /\ Len(Anomalies) <= 6
    /\ report.result.anomaly_count = Len(Anomalies)
    /\ report.result.is_anomaly <=> report.result.overall_severity # "normal"

\* Findings of all three detectors in one report: thresholds, a spike and
\* the rate of change.
C26_Witness ==
  /\ Detected
  /\ Len(Anomalies) >= 4
  /\ OfType("temperature") # << >>
  /\ OfType("temperature_spike") # << >>
  /\ OfType("temperature_rising") # << >>


\* ------------------------------------------------- the anomaly summary
\* A summary that was returned (no exception).
Summarised == report.kind = "summary" /\ ~report.raised
\* The overall severity the detector gives a listed machine.
SeverityOf(machine) == detect_anomalies(store, machine, report.at).overall_severity
WithSeverity(severities) ==
  {i \in DOMAIN report.machines : SeverityOf(report.machines[i]) \in severities}
InSummary(machine_id) ==
  \E k \in DOMAIN report.result.anomalies : report.result.anomalies[k].machine_id = machine_id

\* C27: get_anomaly_summary gives critical_count + warning_count =
\* machines_with_anomalies <= total_machines; a machine is counted as
\* critical iff its overall severity is critical, as warning iff it is
\* warning or anomaly, and a machine without anomaly is in neither count
\* and not in the anomalies list.
C27_SummaryCounts ==
  Summarised =>
    /\ report.result.critical_count + report.result.warning_count
         = report.result.machines_with_anomalies
    /\ report.result.machines_with_anomalies <= report.result.total_machines
    /\ report.result.total_machines = Len(report.machines)
    /\ report.result.critical_count = Cardinality(WithSeverity({"critical"}))
    /\ report.result.warning_count = Cardinality(WithSeverity({"warning", "anomaly"}))
    /\ \A i \in DOMAIN report.machines :
         SeverityOf(report.machines[i]) = "normal" <=> ~InSummary(report.machines[i].machine_id)

\* Three machines in one summary: a critical one, one whose only finding
\* is a spike, and one without anomaly.
C27_Witness ==
  /\ Summarised
  /\ Len(report.machines) = 3
  /\ WithSeverity({"critical"}) # {}
  /\ WithSeverity({"anomaly"}) # {}
  /\ WithSeverity({"normal"}) # {}
  /\ report.result.critical_count = 1
  /\ report.result.warning_count = 1


\* The stored rows of a listed machine within the six hours before the call.
SixHourRows(machine_id) ==
  SelectSeq(store, LAMBDA r : r.machine_id = machine_id /\ report.at - r.timestamp <= 6)

\* C28: a machine with fewer than 5 readings in the last 6 hours never
\* appears in the output of get_maintenance_recommendations, and every
\* entry that appears has a non-empty time_to_critical, so that its
\* recommended_action is never the fallback "Continue monitoring".
C28_OnlyForecastMachines ==
  Maintained =>
    /\ \A i \in DOMAIN report.machines :
         Len(SixHourRows(report.machines[i].machine_id)) < 5
           => EntriesFor(report.machines[i].machine_id) = << >>
    /\ \A k \in DOMAIN report.result :
         /\ Len(SixHourRows(report.result[k].machine_id)) >= 5
         /\ DOMAIN report.result[k].time_to_critical # {}
         /\ report.result[k].recommended_action # << "Continue monitoring" >>

\* A hot machine with two readings listed beside a hot machine with five
\* rising ones: only the second is recommended for maintenance.
C28_Witness ==
  /\ Maintained
  /\ Len(report.machines) = 2
  /\ report.machines[1].temperature = 92
  /\ report.machines[2].temperature = 92
  /\ Len(SixHourRows(report.machines[1].machine_id)) = 2
  /\ Len(report.result) = 1
  /\ report.result[1].machine_id = report.machines[2].machine_id


\* ------------------------------------------------- the two health scores
Breach(limit_passed) == IF limit_passed THEN 1 ELSE 0
\* The score of the claim for a snapshot, the vibration in hundredths.
ExpectedScore(machine) ==
  100 - 30 * Breach(machine.temperature > 80) - 25 * Breach(machine.vibration > 70)
      - 20 * Breach(machine.rpm > 3000)
\* Score and status as each of the two endpoints computes them.
RestResult(machine) ==
  [score |-> CalculateHealthScore(machine),
   status |-> CalculateHealthStatus(CalculateHealthScore(machine))]
StreamResult(machine) == calculate_health(machine)

\* C29: the health calculation of the REST endpoint and that of the
\* WebSocket stream agree on every reading: both give score = 100
\* - 30*[temperature > 80] - 25*[vibration > 0.7] - 20*[rpm > 3000], which
\* lies in 25..100, with status Healthy iff score >= 70, Warning iff
\* 40 <= score < 70 and Critical iff score < 40, that is, only when all
\* three limits are passed.
C29_HealthAgrees ==
  (report.kind \in {"rest_health", "stream_health"} /\ ~report.raised) =>
    /\ report.result = RestResult(report.machine)
    /\ report.result = StreamResult(report.machine)
    /\ report.result.score = ExpectedScore(report.machine)
    /\ report.result.score \in 25..100
    /\ report.result.status = "Healthy" <=> report.result.score >= 70
    /\ report.result.status = "Warning"
         <=> (40 <= report.result.score /\ report.result.score < 70)
    /\ report.result.status = "Critical" <=> report.result.score < 40
    /\ report.result.status = "Critical"
         <=> (report.machine.temperature > 80 /\ report.machine.vibration > 70
              /\ report.machine.rpm > 3000)

\* The stream scores a snapshot with all three limits passed: 25, Critical.
C29_Witness ==
  /\ report.kind = "stream_health"
  /\ report.machine.temperature = 81
  /\ report.machine.vibration = 71
  /\ report.machine.rpm = 3001
  /\ report.result = [score |-> 25, status |-> "Critical"]



\* ------------------------------------------------------ machine control
\* A command that was answered (no unknown action).
Commanded == report.kind = "control" /\ report.status = 200
After == machine_states[report.machine_id]
\* running, speed and maintenance_scheduled are as the command found them.
Untouched ==
  /\ After.running = report.before.running
  /\ After.speed = report.before.speed
  /\ After.maintenance_scheduled = report.before.maintenance_scheduled
ValueGiven == ~IsNull(report.command.value)

\* C30: after any sequence of control commands the speed of a machine is
\* within 0..150: adjust_speed with a value v in 0..150 on a running machine
\* succeeds and sets the speed to exactly v, while adjust_speed on a stopped
\* machine or with a value outside 0..150, start on a running machine and
\* stop on a stopped machine return success = false and leave running,
\* speed and maintenance_scheduled unchanged.
C30_SpeedCommands ==
  /\ \A id \in DOMAIN machine_states : machine_states[id].speed \in 0..150
  /\ Commanded =>
       /\ (report.command.action = "adjust_speed" /\ report.before.running
           /\ report.command.value \in 0..150)
            => (report.success /\ After.speed = report.command.value)
       /\ (report.command.action = "adjust_speed"
           /\ (~report.before.running
               \/ (ValueGiven /\ report.command.value \notin 0..150)))
            => (~report.success /\ Untouched)
       /\ (report.command.action = "start" /\ report.before.running)
            => (~report.success /\ Untouched)
       /\ (report.command.action = "stop" /\ ~report.before.running)
            => (~report.success /\ Untouched)

====
